---- MODULE Spec2Model ----
(***************************************************************************)
(* Multi-agent research pipeline of src/research_agent.py:                 *)
(* main -> lead_agent (plan, research_agent per subtopic, synthesis)       *)
(*      -> evaluate_research_quality.                                      *)
(*                                                                         *)
(* A Python str is a sequence of tokens: a token is one character of a     *)
(* provider text ("\n", " ", "#", "a", ...) or one literal chunk of the    *)
(* program's own f-strings.  Concatenation is \o.  Python's None, where a  *)
(* str is expected, is the distinguished value None.  A character that a   *)
(* string literal here cannot hold is the token of its code point           *)
(* ("U+000B").  An exception is its class name, its str() and whether it is  *)
(* an instance of Exception.  A print call either writes or raises.         *)
(***************************************************************************)
EXTENDS Integers, Sequences, FiniteSets, TLC

VARIABLES
    pc,                 \* position in main: "lead_agent", "workers", "evaluate", "done", "aborted"
    research_question,  \* argument of lead_agent
    research_database,  \* self.research_database
    subtopics,          \* local of lead_agent
    research_results,   \* local of lead_agent
    i,                  \* 1-based loop position of the dispatch loop (enumerate index + 1)
    report,             \* value returned by lead_agent
    evaluation,         \* value returned by evaluate_research_quality
    exc,                \* exception propagating out of main, or NoExc
    events,             \* history: provider calls issued in this run, with their outcomes
    console,            \* history: lines of the print calls that raised in this run
    runs,               \* number of runs started on this MultiAgentResearchSystem
    decompositions      \* history: per run, the planning response and the subtopics held after the step

vars == <<pc, research_question, research_database, subtopics, research_results,
          i, report, evaluation, exc, events, console, runs, decompositions>>

-----------------------------------------------------------------------------
(* Python values *)

None == <<"<None>">>
\* no exception pending: no Python class has this name
NoExc == [cls |-> "<no exception>", msg |-> <<>>, exception |-> FALSE]
NoReport == [returned |-> FALSE]
NoEvaluation == [returned |-> FALSE]

NL == "\n"
\* the characters str.strip() removes: those for which str.isspace() holds
Whitespace ==
    {"\t", NL, "U+000B", "\f", "\r", "U+001C", "U+001D", "U+001E", "U+001F", " ",
     "U+0085", "U+00A0", "U+1680", "U+2000", "U+2001", "U+2002", "U+2003", "U+2004",
     "U+2005", "U+2006", "U+2007", "U+2008", "U+2009", "U+200A", "U+2028", "U+2029",
     "U+202F", "U+205F", "U+3000"}

Min(a, b) == IF a <= b THEN a ELSE b

\* str.startswith
StartsWith(s, p) == Len(s) >= Len(p) /\ SubSeq(s, 1, Len(p)) = p

\* str.strip(): drops leading and trailing whitespace
RECURSIVE LStrip(_)
LStrip(s) == IF s # <<>> /\ Head(s) \in Whitespace THEN LStrip(Tail(s)) ELSE s

RECURSIVE RStrip(_)
RStrip(s) ==
    IF s # <<>> /\ s[Len(s)] \in Whitespace THEN RStrip(SubSeq(s, 1, Len(s) - 1)) ELSE s

Strip(s) == RStrip(LStrip(s))

\* str.split(sep): the pieces between occurrences of sep; "".split(sep) = [""]
RECURSIVE SplitAcc(_, _, _)
SplitAcc(s, sep, cur) ==
    IF s = <<>> THEN <<cur>>
    ELSE IF Head(s) = sep THEN <<cur>> \o SplitAcc(Tail(s), sep, <<>>)
    ELSE SplitAcc(Tail(s), sep, Append(cur, Head(s)))

Split(s, sep) == SplitAcc(s, sep, <<>>)

\* Mutant: the parts joined last to first
RECURSIVE JoinReversed(_, _)
JoinReversed(sep, parts) ==
    IF parts = <<>> THEN <<>>
    ELSE IF Len(parts) = 1 THEN parts[1]
    ELSE JoinReversed(sep, Tail(parts)) \o sep \o parts[1]

\* sep.join(parts)
RECURSIVE Join(_, _)
Join(sep, parts) ==
    IF parts = <<>> THEN <<>>
    ELSE IF Len(parts) = 1 THEN parts[1]
    ELSE parts[1] \o sep \o Join(sep, Tail(parts))

\* Mutant: the slice left out
TakeAll(s, n) == s

\* seq[:n]
Take(s, n) == SubSeq(s, 1, Min(n, Len(s)))

\* str(n) for a small natural number
Str(n) == <<ToString(n)>>

-----------------------------------------------------------------------------
(* Exceptions: the class and str(e) of the errors that can arise, and      *)
(* whether the error is an instance of Exception                            *)

\* is_exception is isinstance(e, Exception)
Exc(cls, msg, is_exception) ==
    [cls |-> cls, msg |-> msg, exception |-> is_exception]

\* str(e)
StrOf(e) == e.msg

\* isinstance(e, Exception): what `except Exception` handles
IsException(e) == e.exception

LlmError == Exc("APIError", <<"llm provider error">>, TRUE)
\* an exception whose str() is empty
EmptyError == Exc("TimeoutError", <<>>, TRUE)
\* Ctrl-C while a call is blocking: a BaseException that is not an Exception
Interrupt == Exc("KeyboardInterrupt", <<>>, FALSE)
SearchError == Exc("ConnectionError", <<"search provider error">>, TRUE)
\* store_research raises in its append, or after it (the print of line 47)
StoreError == Exc("MemoryError", <<"store error">>, TRUE)
StoreLateError == Exc("OSError", <<"store error after the append">>, TRUE)
\* the print of line 53 raises
WorkerError == Exc("OSError", <<"worker error">>, TRUE)
\* any other print raises: the console cannot encode the text
PrintError(line) ==
    Exc("UnicodeEncodeError",
        <<"codec can't encode the text printed at line ", ToString(line)>>, TRUE)
EvalError == Exc("ConnectionError", <<"evaluation service error">>, TRUE)
BuildError == Exc("ValueError", <<"example construction error">>, TRUE)
\* None.split(...) at line 115
AttributeErrorSplit ==
    Exc("AttributeError", <<"'NoneType' object has no attribute 'split'">>, TRUE)
\* "\n".join([... None ...]) at line 138; k is the 0-based position of the first None
JoinTypeError(k) ==
    Exc("TypeError",
        <<"sequence item ", ToString(k), ": expected str instance, NoneType found">>,
        TRUE)
IndexErrorText == Exc("IndexError", <<"list index out of range">>, TRUE)
\* results[0] where run_evaluation returned None
TypeErrorSubscript ==
    Exc("TypeError", <<"'NoneType' object is not subscriptable">>, TRUE)
\* the comprehension of line 205 over a scorers_data that is None
TypeErrorNotIterable == Exc("TypeError", <<"'NoneType' object is not iterable">>, TRUE)
\* obj.attr on an object of class cls that has no such attribute
AttributeErrorOf(cls, attr) ==
    Exc("AttributeError", <<"'", cls, "' object has no attribute '", attr, "'">>, TRUE)
\* results[0].success at line 204
AttributeErrorResult(cls) == AttributeErrorOf(cls, "success")

\* Outcome of a provider call: it raises err, or returns a response whose
\* choices[k].message.content are `choices` (a None response has no choices).
Raises(e) == [raises |-> TRUE, err |-> e, choices |-> <<>>]
Returns(cs) == [raises |-> FALSE, err |-> NoExc, choices |-> cs]
\* the call returns None where a list of results is expected
ReturnsNone == [raises |-> FALSE, err |-> NoExc, choices |-> <<>>, absent |-> TRUE]

Event(call, agent, arg, outcome) ==
    [call |-> call, agent |-> agent, arg |-> arg, outcome |-> outcome]


-----------------------------------------------------------------------------
(* Worker agent: web_search, store_research, research_agent *)

SearchSuffix == <<" research analysis">>
Sources == << <<"source1.com">>, <<"source2.org">>, <<"source3.edu">> >>

\* web_search (mock data)
WebSearch(query) ==
    [query   |-> query,
     results |-> << <<"Research finding about ">> \o query \o <<" from source 1">>,
                    <<"Additional information on ">> \o query \o <<" from source 2">>,
                    <<"Expert analysis of ">> \o query \o <<" from source 3">> >>,
     sources |-> Sources]

\* Mutant: the append left out
StoreResearchNoop(db, data) == db

\* Mutant: a record equal to a stored one is not appended again
StoreResearchDedup(db, data) ==
    IF \E n \in 1..Len(db) : db[n] = data THEN db ELSE Append(db, data)

\* store_research: self.research_database.append(data)
StoreResearch(db, data) == Append(db, data)

ResearchFailedPrefix == <<"Research failed: ">>

\* the except branch of research_agent
DegradedRecord(topic, agent_id, e) ==
    [agent_id     |-> agent_id,
     topic        |-> topic,
     findings     |-> ResearchFailedPrefix \o StrOf(e),
     sources      |-> <<>>,
     search_query |-> topic]

FindingsTemplate(topic) ==
    <<"Analysis of ">> \o topic \o <<" based on available research data.">>

\* findings from the language-model response of a worker
WorkerFindings(choices, topic) ==
    IF choices # <<>> THEN choices[1] ELSE FindingsTemplate(topic)

ResearchData(topic, agent_id, findings, search_results) ==
    [agent_id     |-> agent_id,
     topic        |-> topic,
     findings     |-> findings,
     sources      |-> search_results.sources,
     search_query |-> search_results.query]

\* Mutant: the handler written for the search provider's errors only
WorkerCatchesSearchOnly(e) == e = SearchError

\* Which exceptions the worker's `except Exception` handles
WorkerCatches(e) == IsException(e)

\* Mutant: a raising search call is issued a second time before giving up
ResearchAgentRetriesSearch(topic, agent_id, db, w) ==
    LET ev == Event("search", agent_id, topic \o SearchSuffix, Raises(SearchError))
    IN  [escaped |-> FALSE, err |-> NoExc,
         rec |-> DegradedRecord(topic, agent_id, SearchError), db |-> db,
         ev |-> <<ev, ev>>, bad |-> {}]

\* research_agent(topic, agent_id) on store db, under the outcomes w of what it
\* calls: w.escape (the print of line 53 raises), w.search, w.llm, w.store and
\* w.console (the lines of the other prints that raise).  Result: escaped (an
\* error left research_agent), err, rec (the returned record), db (the store
\* afterwards), ev (the calls it issued, and its raise), bad (the lines of its
\* prints that raised).
ResearchAgent(topic, agent_id, db, w) ==
    LET query == topic \o SearchSuffix
        searchEv(o) == Event("search", agent_id, query, o)
        llmEv(o) == Event("llm", agent_id, topic, o)
        storeEv(o) == Event("store", agent_id, topic, o)
        escapeEv(e) == Event("escape", agent_id, topic, Raises(e))
        \* e is raised inside the try block
        Fail(e, db2, ev, bad) ==
            IF ~WorkerCatches(e)
            THEN [escaped |-> TRUE, err |-> e,
                  rec |-> DegradedRecord(topic, agent_id, e), db |-> db2,
                  ev |-> Append(ev, escapeEv(e)), bad |-> bad]
            ELSE IF 88 \in w.console
            THEN [escaped |-> TRUE, err |-> PrintError(88),
                  rec |-> DegradedRecord(topic, agent_id, e), db |-> db2,
                  ev |-> Append(ev, escapeEv(PrintError(88))), bad |-> bad \cup {88}]
            ELSE [escaped |-> FALSE, err |-> NoExc,
                  rec |-> DegradedRecord(topic, agent_id, e), db |-> db2, ev |-> ev,
                  bad |-> bad]
    IN  IF w.escape
        THEN [escaped |-> TRUE, err |-> WorkerError,
              rec |-> DegradedRecord(topic, agent_id, WorkerError), db |-> db,
              ev |-> <<escapeEv(WorkerError)>>, bad |-> {53}]
        ELSE IF w.search = "raise"
        THEN Fail(SearchError, db, <<searchEv(Raises(SearchError))>>, {})
        ELSE LET search_results == WebSearch(query)
                 ev1 == <<searchEv(Returns(search_results.results))>>
             IN  IF w.llm.raises
                 THEN Fail(w.llm.err, db, Append(ev1, llmEv(w.llm)), {})
                 ELSE LET findings == WorkerFindings(w.llm.choices, topic)
                          research_data ==
                              ResearchData(topic, agent_id, findings, search_results)
                          ev2 == Append(ev1, llmEv(w.llm))
                      IN  CASE w.store = "ok" ->
                                 [escaped |-> FALSE, err |-> NoExc, rec |-> research_data,
                                  db |-> StoreResearch(db, research_data),
                                  ev |-> Append(ev2, storeEv(Returns(<<>>))),
                                  bad |-> {}]
                            [] w.store = "raise_before" ->
                                 Fail(StoreError, db,
                                      Append(ev2, storeEv(Raises(StoreError))), {})
                            [] w.store = "raise_after" ->
                                 Fail(StoreLateError, StoreResearch(db, research_data),
                                      Append(ev2, storeEv(Raises(StoreLateError))), {47})

-----------------------------------------------------------------------------
(* Lead agent *)

DefaultSubtopics ==
    << <<"Technical challenges">>, <<"Economic factors">>, <<"Policy considerations">> >>

MaxSubtopics == 3

\* [topic.strip() for topic in text.split('\n')
\*    if topic.strip() and not topic.strip().startswith('#')][:3]
ParseKeep(line) == Strip(line) # <<>> /\ ~StartsWith(Strip(line), <<"#">>)

ParseSubtopics(text) ==
    LET lines == Split(text, NL)
        kept == SelectSeq(lines, ParseKeep)
    IN  Take([k \in 1..Len(kept) |-> Strip(kept[k])], MaxSubtopics)

\* Mutant: the fallback taken whenever fewer than 3 subtopics were parsed
WithFallbackBelowThree(parsed) == IF Len(parsed) < 3 THEN DefaultSubtopics ELSE parsed

\* "Fallback if parsing fails"
WithFallback(parsed) == IF parsed = <<>> THEN DefaultSubtopics ELSE parsed

\* Mutant: a planning step that does not research a topic twice: subtopics
\* with a record in research_database are dropped from the parsed list
PlanSubtopicsSkipsStored(choices) ==
    LET Fresh(topic) ==
            \A n \in 1..Len(research_database) : research_database[n].topic # topic
    IN  WithFallback(IF choices # <<>>
                     THEN SelectSeq(ParseSubtopics(choices[1]), Fresh) ELSE <<>>)

\* subtopics from a planning response that did not raise (content is not None)
PlanSubtopics(choices) ==
    WithFallback(IF choices # <<>> THEN ParseSubtopics(choices[1]) ELSE <<>>)

\* Mutant: the id is the number of records collected so far plus one
AgentIdRenumbered(position) == Len(research_results) + 1

\* agent_id = i + 1 for the 0-based enumerate index; position is 1-based
AgentId(position) == position

\* Mutant: the synthesis left empty when no record was collected
FailureSynthesisEmpty == <<>>

FailureSynthesis == <<"Research could not be completed due to technical issues.">>

SynthesisTemplate(question, n) ==
    <<"Synthesis of research on: ">> \o question
        \o <<"\n\nBased on findings from ">> \o Str(n) \o <<" research agents.">>

SynthesisPrompt(question, all_findings) ==
    <<"Original question: ">> \o question \o <<"\n\nResearch findings:\n">>
        \o all_findings \o <<"\n\nCreate a comprehensive synthesis.">>

FinalSynthesis(choices, question, n) ==
    IF choices # <<>> THEN choices[1] ELSE SynthesisTemplate(question, n)

\* Mutant: total_agents_used counts the subtopics instead of the records
FinalReportCountsSubtopics(question, subs, results, synthesis) ==
    [research_question   |-> question,
     subtopics           |-> subs,
     individual_research |-> results,
     final_synthesis     |-> synthesis,
     total_agents_used   |-> Len(subs)]

FinalReport(question, subs, results, synthesis) ==
    [research_question   |-> question,
     subtopics           |-> subs,
     individual_research |-> results,
     final_synthesis     |-> synthesis,
     total_agents_used   |-> Len(results)]

\* Mutant: the handler keeps the records collected so far
LeadExceptKeepsRecords(question, e) ==
    [research_question   |-> question,
     subtopics           |-> << <<"Error occurred">> >>,
     individual_research |-> research_results,
     final_synthesis     |-> <<"Research failed due to error: ">> \o StrOf(e),
     total_agents_used   |-> Len(research_results)]

\* the top-level except branch of lead_agent
LeadExcept(question, e) ==
    [research_question   |-> question,
     subtopics           |-> << <<"Error occurred">> >>,
     individual_research |-> <<>>,
     final_synthesis     |-> <<"Research failed due to error: ">> \o StrOf(e),
     total_agents_used   |-> 0]

\* Mutant: the handler written for the provider's errors only
LeadCatchesProviderOnly(e) == e = LlmError

\* Which exceptions the lead agent's top-level `except Exception` handles
LeadCatches(e) == IsException(e)

\* Mutant: no handler around the worker invocation
DispatchCatchesNone(e) == FALSE

\* Which exceptions the dispatch loop's `except Exception` handles
DispatchCatches(e) == IsException(e)

-----------------------------------------------------------------------------
(* Quality evaluator *)

\* Example(input=..., actual_output=..., retrieval_context=[...])
Example(rep) ==
    [input             |-> rep.research_question,
     actual_output     |-> rep.final_synthesis,
     retrieval_context |-> [k \in 1..Len(rep.individual_research) |->
                               rep.individual_research[k].findings]]

\* {scorer.name: scorer.score for scorer in scorers_data}: a later entry of the
\* same name replaces an earlier one
ScoresDict(scorers_data) ==
    LET names == {scorers_data[k].name : k \in 1..Len(scorers_data)}
        last(n) == CHOOSE k \in 1..Len(scorers_data) :
                       /\ scorers_data[k].name = n
                       /\ \A j \in (k + 1)..Len(scorers_data) : scorers_data[j].name # n
    IN  [n \in names |-> scorers_data[last(n)].score]

EvaluationSummary(results) ==
    [evaluation_success |-> results[1].success,
     scores             |-> ScoresDict(results[1].scorers_data),
     evaluation_details |-> results[1].scorers_data]

\* the except branch of evaluate_research_quality
EvalExcept(e) == [evaluation_success |-> FALSE, error |-> StrOf(e)]

\* Which exceptions the evaluator's `except Exception` handles
EvalCatches(e) == IsException(e)

\* x.attr can be read: x carries the attribute; the keys of a dict are not
\* attributes
HasAttr(x, attr) == x.class # "dict" /\ attr \in DOMAIN x

\* The error, if any, of reading scorer.name and scorer.score along scorers_data
ScorerFailure(scorers_data) ==
    LET lacking == {k \in 1..Len(scorers_data) :
                       ~HasAttr(scorers_data[k], "name")
                       \/ ~HasAttr(scorers_data[k], "score")}
        first == CHOOSE k \in lacking : \A j \in lacking : k <= j
    IN  IF lacking = {} THEN NoExc
        ELSE AttributeErrorOf(scorers_data[first].class,
                 IF ~HasAttr(scorers_data[first], "name") THEN "name" ELSE "score")

\* The error, if any, raised inside the try block for the service outcome o:
\* by run_evaluation, by results[0], by .success, by .scorers_data, by the
\* comprehension of line 205.  A scorers_data that is None is the field
\* scorers_none of the result.
EvalFailure(o) ==
    IF o.raises THEN o.err
    ELSE IF "absent" \in DOMAIN o THEN TypeErrorSubscript
    ELSE IF o.choices = <<>> THEN IndexErrorText
    ELSE IF ~HasAttr(o.choices[1], "success")
         THEN AttributeErrorResult(o.choices[1].class)
    ELSE IF "scorers_none" \in DOMAIN o.choices[1] THEN TypeErrorNotIterable
    ELSE IF ~HasAttr(o.choices[1], "scorers_data")
         THEN AttributeErrorOf(o.choices[1].class, "scorers_data")
    ELSE ScorerFailure(o.choices[1].scorers_data)

-----------------------------------------------------------------------------
(* Inputs: the outcomes of the external calls and of the print calls *)

\* the question of main
Questions ==
    { <<"What are the main challenges and opportunities for renewable energy adoption in developing countries?">> }

Analysis == <<"ANALYSIS">>

\* planning texts: empty; one line; a heading, blank lines and two padded
\* lines, with tabs and CRLF line ends; four lines
PlanTexts ==
    { <<>>,
      Analysis,
      <<"#", " ", "h", "\r", NL, "\t", "a", " ", "\r", NL, NL, "b">>,
      <<"a", NL, "b", NL, "c", NL, "d">> }

PlanOutcomes ==
    {Raises(LlmError), Raises(EmptyError), Raises(Interrupt), Returns(<<>>),
     Returns(<<None>>)}
        \cup {Returns(<<t>>) : t \in PlanTexts}

\* which prints of lead_agent's planning step raise: line 99 (before the try),
\* line 123 (inside it), line 167 (inside the handler)
PlanConsoles == {{}, {99}, {123}, {167}, {123, 167}}

WorkerLlmOutcomes ==
    {Raises(LlmError), Raises(Interrupt), Returns(<<>>), Returns(<<None>>), Returns(<< <<>> >>),
     Returns(<<Analysis>>)}

\* a worker invocation in which a print of a handler raises: line 88 (the
\* worker's handler), line 132 (the dispatch loop's), line 167 (lead_agent's)
WorkerConsoleOutcomes ==
    { [escape |-> TRUE, search |-> "ok", llm |-> Returns(<<Analysis>>), store |-> "ok",
       console |-> c] : c \in {{132}, {132, 167}} }
    \cup { [escape |-> FALSE, search |-> sr, llm |-> Raises(LlmError), store |-> "ok",
            console |-> c] :
              sr \in {"ok", "raise"}, c \in {{88}, {88, 132}, {88, 132, 167}} }

WorkerOutcomes ==
    [escape  : BOOLEAN,
     search  : {"ok", "raise"},
     llm     : WorkerLlmOutcomes,
     store   : {"ok", "raise_before", "raise_after"},
     console : {{}}]
    \cup WorkerConsoleOutcomes

SynthOutcomes ==
    {Raises(LlmError), Raises(EmptyError), Raises(Interrupt), Returns(<<>>), Returns(<<None>>), Returns(<< <<>> >>),
     Returns(<<Analysis>>)}

\* whether the print of lead_agent's handler (line 167) raises
HandlerConsoles == {{}, {167}}

ScoreA == [class |-> "ScorerData", name |-> "Faithfulness", score |-> 9]
ScoreB == [class |-> "ScorerData", name |-> "Answer Relevancy", score |-> 5]
ScoreC == [class |-> "ScorerData", name |-> "Faithfulness", score |-> 2]
\* a dict in place of a scorer object
ScoreMalformed == [class |-> "dict", name |-> "Faithfulness", score |-> 9]

ResultPass ==
    [class |-> "ScoringResult", success |-> TRUE, scorers_data |-> <<ScoreA, ScoreB>>]
ResultFail ==
    [class |-> "ScoringResult", success |-> FALSE, scorers_data |-> <<ScoreC, ScoreB>>]
\* a dict in place of a result object
ResultMalformed == [class |-> "dict", success |-> TRUE, scorers_data |-> <<>>]
\* a result whose scorers_data is None, is missing, holds a malformed scorer
ResultNoneScorers ==
    [class |-> "ScoringResult", success |-> TRUE, scorers_data |-> <<>>,
     scorers_none |-> TRUE]
ResultNoScorers == [class |-> "ScoringResult", success |-> TRUE]
ResultBadScorer ==
    [class |-> "ScoringResult", success |-> TRUE,
     scorers_data |-> <<ScoreA, ScoreMalformed>>]

EvalOutcomes ==
    {Raises(EvalError), Raises(EmptyError), Raises(Interrupt), ReturnsNone,
     Returns(<<>>), Returns(<<ResultMalformed>>), Returns(<<ResultNoneScorers>>),
     Returns(<<ResultNoScorers>>), Returns(<<ResultBadScorer>>),
     Returns(<<ResultPass>>), Returns(<<ResultFail, ResultPass>>)}

\* an evaluation in which a print raises: main's prints after lead_agent
\* (lines 228-234), line 179 (before the try), line 212 (inside the handler),
\* main's prints after the evaluation (lines 239-245)
EvalConsoleInputs ==
    { <<Raises(EvalError), c>> : c \in {{228}, {179}, {212}, {239}} }
    \cup { <<Returns(<<ResultPass>>), {239}>> }

\* the outcome of run_evaluation and the lines of the prints that raise
EvalInputs == (EvalOutcomes \X {{}}) \cup EvalConsoleInputs

-----------------------------------------------------------------------------
(* The program: main runs lead_agent, then evaluate_research_quality *)

InitWith(questions) ==
    /\ pc = "lead_agent"
    /\ research_question \in questions
    /\ research_database = <<>>
    /\ subtopics = <<>>
    /\ research_results = <<>>
    /\ i = 0
    /\ report = NoReport
    /\ evaluation = NoEvaluation
    /\ exc = NoExc
    /\ events = <<>>
    /\ console = {}
    /\ runs = 1
    /\ decompositions = <<>>

Init == InitWith(Questions)

\* e leaves lead_agent; failed are the lines of the prints that have raised
LeadRaises(e, failed) ==
    /\ report' = report
    /\ pc' = "aborted"
    /\ exc' = e
    /\ console' = failed
    /\ subtopics' = <<>>
    /\ research_results' = <<>>
    /\ i' = 0

\* e is raised inside lead_agent's try block; c are the lines of the prints
\* that raise, failed those of the prints that have raised
LeadFails(e, c, failed) ==
    IF LeadCatches(e)
    THEN IF 167 \in c
         THEN LeadRaises(PrintError(167), failed \cup {167})
         ELSE /\ report' = LeadExcept(research_question, e)
              /\ pc' = "evaluate"
              /\ exc' = exc
              /\ console' = failed
              /\ subtopics' = <<>>
              /\ research_results' = <<>>
              /\ i' = 0
    ELSE LeadRaises(e, failed)

\* lead_agent returns rep
LeadReturns(rep) ==
    /\ report' = rep
    /\ pc' = "evaluate"
    /\ exc' = exc
    /\ console' = console
    /\ subtopics' = <<>>
    /\ research_results' = <<>>
    /\ i' = 0

\* The error, if any, raised by the planning step for the provider outcome o
PlanFailure(o) ==
    IF o.raises THEN o.err
    ELSE IF o.choices # <<>> /\ o.choices[1] = None THEN AttributeErrorSplit
    ELSE NoExc

\* lead_agent: its first print, the planning call, parsing and fallback, the
\* print of the plan; c are the lines of the prints that raise
LeadPlanWith(o, c) ==
    /\ pc = "lead_agent"
    /\ IF 99 \in c
       THEN /\ LeadRaises(PrintError(99), console \cup {99})
            /\ UNCHANGED <<events, decompositions>>
       ELSE /\ events' = Append(events, Event("plan", 0, research_question, o))
            /\ IF PlanFailure(o) # NoExc
               THEN LeadFails(PlanFailure(o), c, console)
               ELSE IF 123 \in c
               THEN LeadFails(PrintError(123), c, console \cup {123})
               ELSE /\ subtopics' = PlanSubtopics(o.choices)
                    /\ research_results' = <<>>
                    /\ i' = 1
                    /\ pc' = "workers"
                    /\ UNCHANGED <<report, exc, console>>
            /\ decompositions' = Append(decompositions,
                   [question   |-> research_question,
                    response   |-> o,
                    dispatched |-> pc' = "workers",
                    subtopics  |-> subtopics'])
    /\ UNCHANGED <<research_question, research_database, evaluation, runs>>

LeadPlan == \E o \in PlanOutcomes, c \in PlanConsoles : LeadPlanWith(o, c)

\* lead_agent: one iteration of the dispatch loop
DispatchWith(outcomes) ==
    /\ pc = "workers"
    /\ i <= Len(subtopics)
    /\ \E w \in outcomes :
          LET r == ResearchAgent(subtopics[i], AgentId(i), research_database, w)
          IN  /\ events' = events \o r.ev
              /\ research_database' = r.db
              /\ IF r.escaped
                 THEN IF DispatchCatches(r.err)
                      THEN IF 132 \in w.console
                           THEN LeadFails(PrintError(132), w.console,
                                          console \cup r.bad \cup {132})
                           ELSE /\ research_results' = research_results
                                /\ i' = i + 1
                                /\ console' = console \cup r.bad
                                /\ UNCHANGED <<pc, subtopics, report, exc>>
                      ELSE LeadFails(r.err, w.console, console \cup r.bad)
                 ELSE /\ research_results' = Append(research_results, r.rec)
                      /\ i' = i + 1
                      /\ console' = console \cup r.bad
                      /\ UNCHANGED <<pc, subtopics, report, exc>>
    /\ UNCHANGED <<research_question, evaluation, runs, decompositions>>

Dispatch == DispatchWith(WorkerOutcomes)

\* 0-based position of the first None among the findings, or -1
FirstNone(results) ==
    LET bad == {k \in 1..Len(results) : results[k].findings = None}
    IN  IF bad = {} THEN -1 ELSE (CHOOSE k \in bad : \A j \in bad : k <= j) - 1

\* lead_agent: synthesis and the final report, after the loop
SynthesizeWith(outcomes, consoles) ==
    /\ pc = "workers"
    /\ i > Len(subtopics)
    /\ IF research_results # <<>>
       THEN IF FirstNone(research_results) >= 0
            THEN /\ \E c \in consoles :
                       LeadFails(JoinTypeError(FirstNone(research_results)), c, console)
                 /\ events' = events
            ELSE \E o \in outcomes, c \in consoles :
                   LET all_findings ==
                           Join(<<NL>>, [k \in 1..Len(research_results) |->
                                            research_results[k].findings])
                   IN  /\ events' = Append(events,
                              Event("synth", 0,
                                    SynthesisPrompt(research_question, all_findings), o))
                       /\ IF o.raises
                          THEN LeadFails(o.err, c, console)
                          ELSE LeadReturns(FinalReport(research_question, subtopics,
                                   research_results,
                                   FinalSynthesis(o.choices, research_question,
                                                  Len(research_results))))
       ELSE /\ events' = events
            /\ LeadReturns(FinalReport(research_question, subtopics, research_results,
                                       FailureSynthesis))
    /\ UNCHANGED <<research_question, research_database, evaluation, runs,
                   decompositions>>

Synthesize == SynthesizeWith(SynthOutcomes, HandlerConsoles)

\* main leaves with e; failed are the lines of the prints that have raised
MainRaises(e, failed) ==
    /\ pc' = "aborted"
    /\ exc' = e
    /\ console' = failed

\* main after lead_agent has returned: its prints of the report, then
\* evaluate_research_quality(report) with the example and the scorers built,
\* then its prints of the evaluation
EvaluateWith(inputs) ==
    /\ pc = "evaluate"
    /\ \E in \in inputs :
          LET o == in[1]
              c == in[2]
          IN
          IF 228 \in c
          THEN /\ MainRaises(PrintError(228), console \cup {228})
               /\ UNCHANGED <<evaluation, events>>
          ELSE IF 179 \in c
          THEN /\ MainRaises(PrintError(179), console \cup {179})
               /\ UNCHANGED <<evaluation, events>>
          ELSE /\ events' = Append(events, Event("eval", 0, Example(report), o))
               /\ IF EvalFailure(o) # NoExc
                  THEN IF ~EvalCatches(EvalFailure(o))
                       THEN /\ MainRaises(EvalFailure(o), console)
                            /\ evaluation' = evaluation
                       ELSE IF 212 \in c
                       THEN /\ MainRaises(PrintError(212), console \cup {212})
                            /\ evaluation' = evaluation
                       ELSE /\ evaluation' = EvalExcept(EvalFailure(o))
                            /\ IF 239 \in c
                               THEN MainRaises(PrintError(239), console \cup {239})
                               ELSE pc' = "done" /\ UNCHANGED <<exc, console>>
                  ELSE /\ evaluation' = EvaluationSummary(o.choices)
                       /\ IF 239 \in c
                          THEN MainRaises(PrintError(239), console \cup {239})
                          ELSE pc' = "done" /\ UNCHANGED <<exc, console>>
    /\ UNCHANGED <<research_question, research_database, subtopics, research_results,
                   i, report, runs, decompositions>>

Evaluate == EvaluateWith(EvalInputs)

\* evaluate_research_quality(report): Example(...) or a scorer constructor raises,
\* before the try block is entered
EvaluateBuildRaises ==
    /\ pc = "evaluate"
    /\ pc' = "aborted"
    /\ exc' = BuildError
    /\ UNCHANGED <<research_question, research_database, subtopics, research_results,
                   i, report, evaluation, events, console, runs, decompositions>>

\* main before it calls lead_agent: one of its two prints (lines 222, 223)
\* raises
MainStartRaises ==
    /\ pc = "lead_agent"
    /\ runs = 1
    /\ events = <<>>
    /\ \E line \in {222, 223} : MainRaises(PrintError(line), console \cup {line})
    /\ UNCHANGED <<research_question, research_database, subtopics, research_results,
                   i, report, evaluation, events, runs, decompositions>>

Next == MainStartRaises \/ LeadPlan \/ Dispatch \/ Synthesize \/ Evaluate

Spec == Init /\ [][Next]_vars

\* The same program, where also the construction of the evaluation request
\* (lines 182-192, outside the try block) may raise.
NextBuild == Next \/ EvaluateBuildRaises

SpecBuild == Init /\ [][NextBuild]_vars

\* The scheduling of the program: it is sequential, and every blocking call it
\* makes returns or raises, so a step that can be taken is taken.
FairSpec == Init /\ [][NextBuild]_vars /\ WF_vars(NextBuild)

-----------------------------------------------------------------------------
(* The planning step alone, over every planning text up to a length *)

MaxTextLen == 7

ParseAlphabet == {NL, " ", "\t", "#", "a"}

AllTexts == UNION {[1..n -> ParseAlphabet] : n \in 0..MaxTextLen}

PlanAnyText ==
    pc = "lead_agent" /\ \E t \in AllTexts : LeadPlanWith(Returns(<<t>>), {})

PlanNoChoices == LeadPlanWith(Returns(<<>>), {})

NextParse == PlanAnyText \/ PlanNoChoices

SpecParse == Init /\ [][NextParse]_vars

-----------------------------------------------------------------------------
(* Repeated runs on one MultiAgentResearchSystem: after a pipeline has ended, *)
(* lead_agent and evaluate_research_quality are called again on the same    *)
(* object, so research_database is kept.  Fewer outcomes per call, and every *)
(* print writes.                                                             *)

MaxRuns == 2

\* the question of main and the question of the specification's scenarios
RepeatQuestions == Questions \cup { <<"What are the risks of quantum computing?">> }

RepeatPlanOutcomes ==
    {Raises(LlmError), Raises(Interrupt), Returns(<<>>), Returns(<<None>>),
     Returns(<<Analysis>>),
     Returns(<< <<"#", " ", "h", "\r", NL, "\t", "a", " ", "\r", NL, NL, "b">> >>)}

RepeatWorkerOutcomes ==
    { [escape |-> FALSE, search |-> "ok", llm |-> Returns(<<Analysis>>), store |-> "ok",
       console |-> {}],
      [escape |-> FALSE, search |-> "ok", llm |-> Raises(LlmError), store |-> "ok",
       console |-> {}],
      [escape |-> FALSE, search |-> "ok", llm |-> Returns(<<None>>), store |-> "ok",
       console |-> {}],
      [escape |-> TRUE, search |-> "ok", llm |-> Returns(<<Analysis>>), store |-> "ok",
       console |-> {}] }

RepeatSynthOutcomes == {Raises(LlmError), Returns(<<Analysis>>)}

RepeatEvalOutcomes == {Raises(EvalError), Returns(<<ResultPass>>)}

\* a further run on the same system: the locals of the last run are gone
NewRun ==
    /\ pc = "done"
    /\ runs < MaxRuns
    /\ runs' = runs + 1
    /\ research_question' \in RepeatQuestions
    /\ pc' = "lead_agent"
    /\ report' = NoReport
    /\ evaluation' = NoEvaluation
    /\ events' = <<>>
    /\ console' = {}
    /\ UNCHANGED <<research_database, subtopics, research_results, i, exc,
                   decompositions>>

LeadPlanRepeat == \E o \in RepeatPlanOutcomes : LeadPlanWith(o, {})

NextRepeat ==
    \/ LeadPlanRepeat
    \/ DispatchWith(RepeatWorkerOutcomes)
    \/ SynthesizeWith(RepeatSynthOutcomes, {{}})
    \/ EvaluateWith(RepeatEvalOutcomes \X {{}})
    \/ NewRun

SpecRepeat == InitWith(RepeatQuestions) /\ [][NextRepeat]_vars

-----------------------------------------------------------------------------
(* Observations used by the properties *)

ReportFields ==
    {"research_question", "subtopics", "individual_research", "final_synthesis",
     "total_agents_used"}

\* lead_agent has returned a report to main
LeadReturned == "total_agents_used" \in DOMAIN report

\* an exception left lead_agent
LeadPropagated == pc = "aborted" /\ ~LeadReturned /\ console \cap {222, 223} = {}

\* an exception left evaluate_research_quality (and not a print of main)
EvalPropagated == pc = "aborted" /\ LeadReturned /\ console \cap {228, 239} = {}

EventsOf(calls) == {k \in 1..Len(events) : events[k].call \in calls}

RaisedIn(calls) == {k \in EventsOf(calls) : events[k].outcome.raises}

IsDegraded(rec) ==
    /\ rec.sources = <<>>
    /\ StartsWith(rec.findings, ResearchFailedPrefix)
    /\ rec.search_query = rec.topic

ErrorSubtopics == << <<"Error occurred">> >>

\* A call of this run was interrupted: it raised something that is not an
\* instance of Exception (KeyboardInterrupt, SystemExit, ...).  That is not a
\* failure of the provider, and no `except Exception` of the program handles it.
Interrupted ==
    \E k \in 1..Len(events) :
        events[k].outcome.raises /\ ~IsException(events[k].outcome.err)

\* A print at one of the lines raised in this run: the console could not take
\* the text.  That is not an outcome of a provider call either.
ConsoleFailed(lines) == console \cap lines # {}

-----------------------------------------------------------------------------
(* C1 *)

\* C1: lead_agent never propagates an exception: whatever the planning call,
\* the workers' search and language-model calls and the synthesis call do
\* (text, empty or absent response, raise of an Exception), no exception leaves
\* lead_agent, and once it has returned the report carries exactly the five
\* fields.  Only an interrupt of a call, or a raise of lead_agent's own print
\* before its try block (line 99) or in its handler (line 167), leaves it.
C1_LeadNeverPropagates ==
    /\ LeadPropagated =>
          \/ Interrupted /\ ~IsException(exc)
          \/ ConsoleFailed({99, 167}) /\ exc \in {PrintError(99), PrintError(167)}
    /\ pc \in {"evaluate", "done"} =>
          /\ DOMAIN report = ReportFields
          /\ report.research_question = research_question
          /\ report.total_agents_used \in 0..MaxSubtopics

\* lead_agent has returned although a search call, a worker's language-model
\* call and the synthesis call raised
C1_Witness ==
    /\ pc = "evaluate"
    /\ RaisedIn({"search"}) # {}
    /\ RaisedIn({"llm"}) # {}
    /\ RaisedIn({"synth"}) # {}

(* C2 *)

\* C2: every report returned by lead_agent has
\* len(individual_research) = total_agents_used <= len(subtopics) <= 3.
C2_ReportCounts ==
    LeadReturned =>
        /\ Len(report.individual_research) = report.total_agents_used
        /\ report.total_agents_used <= Len(report.subtopics)
        /\ Len(report.subtopics) <= 3

\* a normal-path report with fewer records than subtopics
C2_Witness ==
    /\ LeadReturned
    /\ report.subtopics # ErrorSubtopics
    /\ report.total_agents_used = 2
    /\ Len(report.subtopics) = 3

(* C3 *)

\* C3: whatever provider calls fail, the pipeline terminates, having produced
\* a complete report and an evaluation summary.  Runs in which a call is
\* interrupted or a print raises outside every try block are granted to the
\* claim; it fails on the construction of the evaluation request, which is
\* outside the try block of evaluate_research_quality.
C3_PipelineTerminates ==
    <>( \/ Interrupted
        \/ ConsoleFailed({99, 167, 179, 212, 222, 223, 228, 239})
        \/ /\ pc = "done"
           /\ DOMAIN report = ReportFields
           /\ "evaluation_success" \in DOMAIN evaluation )

(* C4 *)

\* C4 (the print of the worker's handler, line 88, writes):
\* a worker whose search or language-model call raised has returned, under
\* its agent_id and topic, a record with no sources, findings that start with
\* "Research failed: " and search_query = topic; the record is collected, so
\* the run enters the synthesis branch and never reports that research could
\* not be completed.
C4_DegradedRecord ==
    /\ pc = "workers" =>
          \A k \in RaisedIn({"search", "llm"}) :
              ConsoleFailed({88}) \/
              \E n \in 1..Len(research_results) :
                  /\ research_results[n].agent_id = events[k].agent
                  /\ research_results[n].topic = subtopics[events[k].agent]
                  /\ IsDegraded(research_results[n])
    /\ (LeadReturned /\ RaisedIn({"search", "llm"}) # {} /\ ~ConsoleFailed({88})) =>
          report.final_synthesis # FailureSynthesis

\* after a search raise and a language-model raise the loop has ended with
\* both degraded records collected
C4_Witness ==
    /\ pc = "workers"
    /\ i > Len(subtopics)
    /\ RaisedIn({"search"}) # {}
    /\ RaisedIn({"llm"}) # {}
    /\ Len(research_results) >= 2

(* C5 *)

\* The planning text of this run (the content of choices[0]), when there is one
PlanText == events[1].outcome.choices[1]

\* The lines of a text by position: a line lies between two consecutive
\* boundaries, where the boundaries are 0, the newlines and Len(text) + 1.
Boundaries(text) ==
    {0} \cup {k \in 1..Len(text) : text[k] = NL} \cup {Len(text) + 1}

LineEnd(text, b) == CHOOSE e \in Boundaries(text) :
                        e > b /\ \A x \in Boundaries(text) : x > b => e <= x

\* positions of the characters of the line after boundary b that are not blank
Inked(text, b) == {k \in (b + 1)..(LineEnd(text, b) - 1) : text[k] \notin Whitespace}

FirstInk(text, b) == CHOOSE k \in Inked(text, b) : \A j \in Inked(text, b) : k <= j
LastInk(text, b) == CHOOSE k \in Inked(text, b) : \A j \in Inked(text, b) : k >= j

\* boundaries that start a line that is not blank and is not a heading
UsableLines(text) ==
    {b \in Boundaries(text) \ {Len(text) + 1} :
        Inked(text, b) # {} /\ text[FirstInk(text, b)] # "#"}

NthUsable(text, n) ==
    CHOOSE b \in UsableLines(text) :
        Cardinality({x \in UsableLines(text) : x < b}) = n - 1

\* C5: subtopics is the first 3 (fewer if fewer exist) of the response's lines
\* that are not blank and do not begin with '#', in response order, each without
\* its surrounding blanks; with no choices, an empty text or only blank and
\* heading lines it is exactly the default triplet; it is never empty when the
\* workers are dispatched.
C5_Decomposition ==
    pc = "workers" =>
        /\ subtopics # <<>>
        /\ Len(subtopics) <= 3
        /\ IF events[1].outcome.choices = <<>> \/ UsableLines(PlanText) = {}
           THEN subtopics = << <<"Technical challenges">>, <<"Economic factors">>,
                               <<"Policy considerations">> >>
           ELSE /\ Len(subtopics) = Min(3, Cardinality(UsableLines(PlanText)))
                /\ \A n \in 1..Len(subtopics) :
                      subtopics[n] =
                          SubSeq(PlanText, FirstInk(PlanText, NthUsable(PlanText, n)),
                                 LastInk(PlanText, NthUsable(PlanText, n)))

\* a text of four usable lines has been cut to its first three
C5_Witness ==
    /\ pc = "workers"
    /\ events[1].outcome.choices # <<>>
    /\ PlanText = <<"a", NL, "a", NL, "a", NL, "a">>
    /\ subtopics = << <<"a">>, <<"a">>, <<"a">> >>

(* C6 *)

\* the planning call of this run raised
PlanRaised == events # <<>> /\ events[1].call = "plan" /\ events[1].outcome.raises

WorkerCalls == {"search", "llm", "store", "escape"}

\* C6: when the planning call raises a provider error (every print writes),
\* the run continues with the default triplet as subtopics and dispatches one
\* worker per default subtopic.
C6_FallbackOnProviderError ==
    (PlanRaised /\ ~Interrupted /\ console = {}) =>
        \/ pc = "workers" /\ subtopics = DefaultSubtopics
        \/ /\ LeadReturned
           /\ report.subtopics = DefaultSubtopics
           /\ {events[k].agent : k \in EventsOf(WorkerCalls)} = 1..3

(* C7 *)

\* every language-model call of the run of lead_agent raised
AllLlmRaise ==
    /\ EventsOf({"plan", "llm", "synth"}) # {}
    /\ \A k \in EventsOf({"plan", "llm", "synth"}) : events[k].outcome.raises

\* C7: when every language-model call raises, the report has the default
\* triplet, three degraded records, total_agents_used = 3 and the failure
\* template on the question and 3 agents as final_synthesis.
C7_LlmAlwaysRaises ==
    (LeadReturned /\ AllLlmRaise) =>
        /\ report.subtopics = DefaultSubtopics
        /\ report.total_agents_used = 3
        /\ Len(report.individual_research) = 3
        /\ \A n \in 1..Len(report.individual_research) :
              IsDegraded(report.individual_research[n])
        /\ report.final_synthesis = SynthesisTemplate(research_question, 3)

(* C8 *)

\* the scenario: every search returns its results, every language-model call
\* returns "ANALYSIS", every store append succeeds, no error leaves a worker,
\* every print writes
AnalysisScenario ==
    /\ console = {}
    /\ \A k \in EventsOf({"plan", "llm", "synth"}) :
          events[k].outcome = Returns(<<Analysis>>)
    /\ RaisedIn({"search", "store"}) = {}
    /\ EventsOf({"escape"}) = {}

\* C8 as stated: in the scenario the report has total_agents_used = 3, every
\* findings = "ANALYSIS" and final_synthesis = "ANALYSIS".
C8_Original ==
    (LeadReturned /\ AnalysisScenario) =>
        /\ report.total_agents_used = 3
        /\ \A n \in 1..Len(report.individual_research) :
              report.individual_research[n].findings = Analysis
        /\ report.final_synthesis = Analysis

\* C8, amended: in the scenario the one-line planning text "ANALYSIS" is the
\* single subtopic, so the report has total_agents_used = 1, one record whose
\* findings = "ANALYSIS", and final_synthesis = "ANALYSIS".
C8_AnalysisScenario ==
    (LeadReturned /\ AnalysisScenario) =>
        /\ report.subtopics = <<Analysis>>
        /\ report.total_agents_used = 1
        /\ Len(report.individual_research) = 1
        /\ report.individual_research[1].findings = Analysis
        /\ report.individual_research[1].sources = Sources
        /\ report.final_synthesis = Analysis

\* lead_agent has returned in the scenario
C8_Witness ==
    /\ pc = "evaluate"
    /\ AnalysisScenario
    /\ EventsOf({"synth"}) # {}
    /\ EventsOf({"search"}) # {}

(* C9 *)

\* the outcome of the evaluation service call of this run
EvalOutcome == events[Len(events)].outcome

IdsOf(records) == {records[n].agent_id : n \in 1..Len(records)}

\* C10: every record of a report has as agent_id the 1-based position of its
\* topic in the subtopics list; the ids increase strictly along
\* individual_research; and while the workers run, the ids collected are the
\* positions dispatched so far less the skipped ones (a gap, not a renumbering).
C10_AgentIdIsPosition ==
    /\ LeadReturned =>
          /\ \A n \in 1..Len(report.individual_research) :
                /\ report.individual_research[n].agent_id \in 1..Len(report.subtopics)
                /\ report.individual_research[n].topic =
                       report.subtopics[report.individual_research[n].agent_id]
          /\ \A m, n \in 1..Len(report.individual_research) :
                m < n => report.individual_research[m].agent_id
                             < report.individual_research[n].agent_id
    /\ pc = "workers" =>
          /\ IdsOf(research_results) =
                 (1..(i - 1)) \ {events[k].agent : k \in EventsOf({"escape"})}
          /\ \A m, n \in 1..Len(research_results) :
                m < n => research_results[m].agent_id < research_results[n].agent_id

\* a report in which the second worker was skipped: the records carry ids 1 and 3
C10_Witness ==
    /\ LeadReturned
    /\ Len(report.subtopics) = 3
    /\ Len(report.individual_research) = 2
    /\ report.individual_research[1].agent_id = 1
    /\ report.individual_research[2].agent_id = 3
    /\ report.individual_research[2].topic = report.subtopics[3]

(* C11 *)

\* a response without usable text: no choices, or a first choice whose content
\* is absent (None) or empty
NoUsableText(o) == ~o.raises /\ (o.choices = <<>> \/ o.choices[1] \in {None, <<>>})

\* C11: an empty or absent language-model response is recoverable.  A worker
\* whose language-model call returned no usable text (and whose store append
\* succeeded) has the templated findings and is not degraded; a synthesis call
\* that returned no usable text gives the templated synthesis, and the report
\* keeps the collected records.
C11_EmptyResponseRecoverable ==
    /\ pc = "workers" =>
          \A k \in EventsOf({"llm"}) :
              (/\ NoUsableText(events[k].outcome)
               /\ \A j \in EventsOf({"store"}) :
                     events[j].agent = events[k].agent => ~events[j].outcome.raises)
              => \E n \in 1..Len(research_results) :
                     /\ research_results[n].agent_id = events[k].agent
                     /\ research_results[n].findings =
                            <<"Analysis of ">> \o research_results[n].topic
                                \o <<" based on available research data.">>
                     /\ ~IsDegraded(research_results[n])
    /\ LeadReturned =>
          \A k \in EventsOf({"synth"}) :
              NoUsableText(events[k].outcome) =>
                  /\ report.individual_research # <<>>
                  /\ report.final_synthesis =
                         <<"Synthesis of research on: ">> \o report.research_question
                             \o <<"\n\nBased on findings from ">>
                             \o <<ToString(Len(report.individual_research))>>
                             \o <<" research agents.">>

(* C12 *)

\* C12 as stated: every returned report without records has the fixed failure
\* string as final_synthesis and total_agents_used = 0.
C12_Original ==
    (LeadReturned /\ report.individual_research = <<>>) =>
        /\ report.final_synthesis =
               <<"Research could not be completed due to technical issues.">>
        /\ report.total_agents_used = 0

\* C12, amended: every returned report without records has
\* total_agents_used = 0; its final_synthesis is the fixed failure string when
\* the run ended normally with no record collected, and is
\* "Research failed due to error: " followed by the error text when it is the
\* minimal report.
C12_NoRecordsReport ==
    (LeadReturned /\ report.individual_research = <<>>) =>
        /\ report.total_agents_used = 0
        /\ IF report.subtopics = << <<"Error occurred">> >>
           THEN StartsWith(report.final_synthesis, <<"Research failed due to error: ">>)
           ELSE report.final_synthesis =
                    <<"Research could not be completed due to technical issues.">>

\* a normal-path report of a run in which every worker invocation was skipped
C12_Witness ==
    /\ LeadReturned
    /\ report.subtopics = DefaultSubtopics
    /\ report.individual_research = <<>>
    /\ Cardinality(EventsOf({"escape"})) = 3

(* C14 *)

\* the subtopics this run dispatches, from its planning response
Dispatched == PlanSubtopics(events[1].outcome.choices)

\* worker p was invoked, with its own topic
Invoked(p, topics) ==
    \E k \in EventsOf({"search", "escape"}) :
        /\ events[k].agent = p
        /\ events[k].arg = IF events[k].call = "search"
                           THEN topics[p] \o <<" research analysis">>
                           ELSE topics[p]

\* the findings of the records, newline-joined in their order
RECURSIVE FindingsText(_)
FindingsText(records) ==
    IF Len(records) = 1 THEN records[1].findings
    ELSE FindingsText(SubSeq(records, 1, Len(records) - 1))
             \o <<"\n">> \o records[Len(records)].findings

CallOrder ==
    /\ events # <<>> => events[1].call = "plan"
    /\ \A k \in EventsOf(WorkerCalls \cup {"synth"}) :
          k > 1 /\ ~events[1].outcome.raises
    /\ \A j, k \in EventsOf(WorkerCalls) :
          j < k => events[j].agent <= events[k].agent
    /\ \A k \in EventsOf({"synth"}) :
          /\ \A j \in EventsOf(WorkerCalls) : j < k
          /\ \A p \in 1..Len(Dispatched) : Invoked(p, Dispatched)
          /\ EventsOf({"search"}) # {}
    /\ \A k \in EventsOf({"eval"}) : k = Len(events) /\ LeadReturned

SynthesisInput ==
    (Len(events') = Len(events) + 1 /\ events'[Len(events')].call = "synth") =>
        /\ pc = "workers"
        /\ i > Len(subtopics)
        /\ research_results # <<>>
        /\ events'[Len(events')].arg =
               <<"Original question: ">> \o research_question
                   \o <<"\n\nResearch findings:\n">> \o FindingsText(research_results)
                   \o <<"\n\nCreate a comprehensive synthesis.">>

\* C14: the provider calls of a run are strictly ordered: the planning call
\* returns before any worker is invoked, the workers are invoked in position
\* order, the synthesis call comes after every dispatched worker, only when a
\* record was collected, with the collected findings in collection order, and
\* the evaluation starts after lead_agent has returned.
C14_CallOrder == [](CallOrder) /\ [][SynthesisInput]_vars

\* the evaluation has run after a synthesis over three records
C14_Witness ==
    /\ pc = "done"
    /\ EventsOf({"synth"}) # {}
    /\ report.total_agents_used = 3
    /\ report.individual_research[1].findings # report.individual_research[2].findings

(* C15 *)

\* a record whose findings is None was collected: the join of the synthesis
\* step raises
NoneCollected ==
    \E k \in EventsOf({"llm"}) :
        /\ ~events[k].outcome.raises
        /\ events[k].outcome.choices # <<>>
        /\ events[k].outcome.choices[1] = None
        /\ \E j \in EventsOf({"store"}) :
              events[j].agent = events[k].agent /\ ~events[j].outcome.raises

\* the texts of the exceptions that left the steps of lead_agent in this run
EscapedErrors ==
    (IF events[1].outcome.raises THEN {StrOf(events[1].outcome.err)} ELSE {})
    \cup (IF ~events[1].outcome.raises /\ events[1].outcome.choices # <<>>
             /\ events[1].outcome.choices[1] = None
          THEN { <<"'NoneType' object has no attribute 'split'">> } ELSE {})
    \cup {StrOf(events[k].outcome.err) : k \in RaisedIn({"synth"})}
    \cup (IF NoneCollected
          THEN { <<"sequence item ", ToString(n),
                   ": expected str instance, NoneType found">> : n \in 0..2 }
          ELSE {})
    \cup { <<"codec can't encode the text printed at line ", ToString(line)>> :
              line \in console \cap {123, 132} }

\* C15: an exception that leaves the planning, dispatch or synthesis step
\* yields exactly the minimal report, with the error text in final_synthesis,
\* also when workers had already returned records; without such an exception
\* the report is not the minimal one.
C15_MinimalReport ==
    LeadReturned =>
        IF EscapedErrors # {}
        THEN \E e \in EscapedErrors :
                 report = [research_question   |-> research_question,
                           subtopics           |-> << <<"Error occurred">> >>,
                           individual_research |-> <<>>,
                           final_synthesis     |-> <<"Research failed due to error: ">> \o e,
                           total_agents_used   |-> 0]
        ELSE report.subtopics # << <<"Error occurred">> >>

\* the synthesis call raised after three workers had returned and stored
\* their records: the report holds none of them
C15_Witness ==
    /\ pc = "evaluate"
    /\ RaisedIn({"synth"}) # {}
    /\ Len(research_database) = 3
    /\ report.individual_research = <<>>

(* C16 *)

Skipped == {events[k].agent : k \in EventsOf({"escape"})}

\* C16 (the prints of lines 123 and 132 write):
\* an error that leaves research_agent makes lead_agent skip that
\* subtopic only: every other subtopic's worker is still invoked with its own
\* topic, and total_agents_used is the number of subtopics less the skipped.
C16_SkipOnlyThatSubtopic ==
    /\ pc = "workers" =>
          /\ \A p \in 1..(i - 1) : Invoked(p, subtopics)
          /\ Len(research_results) = (i - 1) - Cardinality(Skipped)
    /\ (/\ LeadReturned
        /\ EventsOf({"plan"}) # {}
        /\ PlanFailure(events[1].outcome) = NoExc
        /\ ~ConsoleFailed({123, 132})) =>
          \A p \in 1..Len(Dispatched) : Invoked(p, Dispatched)
    /\ (LeadReturned /\ report.subtopics # << <<"Error occurred">> >>) =>
          report.total_agents_used = Len(report.subtopics) - Cardinality(Skipped)

\* the first worker was skipped and the other two have reported
C16_Witness ==
    /\ LeadReturned
    /\ Skipped = {1}
    /\ report.total_agents_used = 2
    /\ IdsOf(report.individual_research) = {2, 3}

(* C19 *)

CallsOf(call, agent) ==
    {k \in EventsOf({call}) : events[k].agent = agent}

\* C19: no provider call is retried: a run has at most one planning call, per
\* subtopic at most one search call and one worker language-model call, at
\* most one synthesis call (so at most 5 language-model calls and 3 search
\* calls), and a worker whose search call raised makes no language-model call.
C19_NoRetry ==
    /\ Cardinality(EventsOf({"plan"})) <= 1
    /\ Cardinality(EventsOf({"synth"})) <= 1
    /\ \A k \in EventsOf({"search", "llm"}) :
          /\ events[k].agent \in 1..3
          /\ Cardinality(CallsOf(events[k].call, events[k].agent)) = 1
    /\ Cardinality(EventsOf({"plan", "llm", "synth"})) <= 5
    /\ Cardinality(EventsOf({"search"})) <= 3
    /\ \A k \in RaisedIn({"search"}) : CallsOf("llm", events[k].agent) = {}

\* a run of three searches, one of which raised, in which a worker's
\* language-model call returned no usable text, has reached its synthesis call
C19_Witness ==
    /\ LeadReturned
    /\ Cardinality(EventsOf({"search"})) = 3
    /\ RaisedIn({"search"}) # {}
    /\ \E k \in EventsOf({"llm"}) : NoUsableText(events[k].outcome)
    /\ Cardinality(EventsOf({"plan", "llm", "synth"})) = 4

(* C17 *)

\* the language-model response of worker a in this run
LlmChoices(a) == events[CHOOSE k \in CallsOf("llm", a) : TRUE].outcome.choices

\* C17: the record returned by research_agent does not depend on the store:
\* when search and the language-model call succeeded and store_research
\* failed, the record is the same non-degraded record as after a successful
\* append.
C17_StoreFireAndForget ==
    pc = "workers" =>
        \A k \in RaisedIn({"store"}) :
            \E n \in 1..Len(research_results) :
                /\ research_results[n].agent_id = events[k].agent
                /\ research_results[n] =
                       [agent_id     |-> events[k].agent,
                        topic        |-> subtopics[events[k].agent],
                        findings     |-> IF LlmChoices(events[k].agent) # <<>>
                                         THEN LlmChoices(events[k].agent)[1]
                                         ELSE FindingsTemplate(subtopics[events[k].agent]),
                        sources      |-> Sources,
                        search_query |-> subtopics[events[k].agent]
                                             \o <<" research analysis">>]

(* C20 *)

\* the workers whose search call and language-model call both returned
BothReturned ==
    {a \in 1..3 : /\ CallsOf("search", a) # {}
                  /\ CallsOf("llm", a) # {}
                  /\ \A k \in CallsOf("search", a) \cup CallsOf("llm", a) :
                        ~events[k].outcome.raises}

\* the workers whose store_research failed before it had appended
AppendFailed ==
    {events[k].agent : k \in {j \in RaisedIn({"store"}) :
                                 events[j].outcome.err = StoreError}}

NotDegraded(rec) == ~IsDegraded(rec)

StoredIncreasing ==
    \A m, n \in 1..Len(research_database) :
        m < n => research_database[m].agent_id < research_database[n].agent_id

RunConsequenceAsStated ==
    (LeadReturned /\ RaisedIn({"synth", "store"}) = {} /\ ~NoneCollected) =>
        research_database = SelectSeq(report.individual_research, NotDegraded)

RunConsequence ==
    (LeadReturned /\ report.subtopics # ErrorSubtopics /\ RaisedIn({"store"}) = {}) =>
        research_database = SelectSeq(report.individual_research, NotDegraded)

\* C20 as stated: a worker appends one record exactly when its search call and
\* its language-model call both returned, never more than one and never a
\* degraded one; and in a run whose synthesis step does not raise and whose
\* appends succeed the store holds the non-degraded records of the report, in
\* order.
C20_Original ==
    /\ IdsOf(research_database) = BothReturned
    /\ StoredIncreasing
    /\ \A n \in 1..Len(research_database) : NotDegraded(research_database[n])
    /\ RunConsequenceAsStated

\* C20, amended: a worker appends one record exactly when its search call and
\* its language-model call both returned and store_research did not fail
\* before its append; never more than one and never a degraded one; and in a
\* run that returns the normal report (not the minimal one) and whose appends
\* succeed the store holds the non-degraded records of the report, in order.
C20_StoredRecords ==
    /\ IdsOf(research_database) = BothReturned \ AppendFailed
    /\ StoredIncreasing
    /\ \A n \in 1..Len(research_database) : NotDegraded(research_database[n])
    /\ RunConsequence

\* a run has returned in which one worker stored its record, one failed in its
\* search and one in the append of its record
C20_Witness ==
    /\ LeadReturned
    /\ report.total_agents_used = 3
    /\ Len(research_database) = 1
    /\ RaisedIn({"search"}) # {}
    /\ AppendFailed # {}

(* C13 *)

\* what the planning response o alone determines: the first three lines of
\* its text that are not blank and are no heading, without their surrounding
\* blanks, or the default triplet when there is none
ResponseSubtopics(o) ==
    LET text == o.choices[1]
    IN  IF o.choices = <<>> \/ UsableLines(text) = {}
        THEN << <<"Technical challenges">>, <<"Economic factors">>,
                <<"Policy considerations">> >>
        ELSE [n \in 1..Min(3, Cardinality(UsableLines(text))) |->
                 SubSeq(text, FirstInk(text, NthUsable(text, n)),
                        LastInk(text, NthUsable(text, n)))]

\* C13: decomposition has no hidden state: the subtopics lead_agent holds after
\* its planning step are those its planning response alone determines,
\* whatever ran and was stored before on the same system; so two planning
\* steps for the same question and the same response end alike, with the same
\* subtopics.
C13_DecompositionDeterministic ==
    /\ \A a \in 1..Len(decompositions) :
          decompositions[a].dispatched =>
              decompositions[a].subtopics = ResponseSubtopics(decompositions[a].response)
    /\ \A a, b \in 1..Len(decompositions) :
          (/\ decompositions[a].question = decompositions[b].question
           /\ decompositions[a].response = decompositions[b].response)
          => /\ decompositions[a].dispatched = decompositions[b].dispatched
             /\ decompositions[a].subtopics = decompositions[b].subtopics

\* the second run has decomposed the same question from the same response as
\* the first, after the first run's worker had stored a record on that topic
C13_Witness ==
    /\ Len(decompositions) = 2
    /\ decompositions[1].question = decompositions[2].question
    /\ decompositions[1].response = decompositions[2].response
    /\ decompositions[2].dispatched
    /\ \E n \in 1..Len(research_database) :
          research_database[n].topic = decompositions[2].subtopics[1]

(* C18 *)

AppendOnlyStep ==
    /\ Len(research_database') >= Len(research_database)
    /\ SubSeq(research_database', 1, Len(research_database)) = research_database
    /\ pc \in {"evaluate", "done", "lead_agent"} => research_database' = research_database
    /\ (pc = "workers" /\ LeadReturned' /\ report'.subtopics = << <<"Error occurred">> >>)
          => research_database' = research_database
    /\ (/\ Len(events') > Len(events)
        /\ events'[Len(events')].call = "store"
        /\ ~events'[Len(events')].outcome.raises)
          => /\ Len(research_database') = Len(research_database) + 1
             /\ research_database'[Len(research_database')]
                    = research_results'[Len(research_results')]

\* C18: research_database is append-only over any sequence of runs and
\* evaluations on one system: no step shortens it or changes, removes or
\* reorders a stored record; a successful store appends even a record equal to
\* a stored one; the planning step, the minimal-report path, the evaluation
\* and the start of a further run leave it unchanged.
C18_AppendOnly == [][AppendOnlyStep]_vars

\* after a repeated run the store holds the same record twice
C18_Witness ==
    /\ runs = 2
    /\ \E m, n \in 1..Len(research_database) :
          m < n /\ research_database[m] = research_database[n]

=============================================================================
